---- MODULE Spec2Model ----
(***************************************************************************)
(* Model of the request-orchestration layer of react-native-video-ekyc-sdk *)
(*   src/src/api/apiService.ts   APIService (executor, templater, domain   *)
(*                               operations, getIPAddress)                  *)
(*   src/unnamed/part_000        APIClient (transport factory)              *)
(*                                                                         *)
(* A JavaScript string that the code inspects (endpoint template, key,    *)
(* path value) is a sequence of pieces: single characters where the        *)
(* templater can match them, longer chunks where it only copies them.      *)
(***************************************************************************)
EXTENDS Integers, Sequences, FiniteSets, TLC

VARIABLES
    \* ---- endpoint templating (getChildren / postChildren) ----
    tplPc,        \* "start" | "sent"
    tplEndpoint,  \* the endpoint template handed to getChildren/postChildren
    tplIds,       \* the ids object: sequence of [key, value] in insertion order
    tplRequest,   \* the request handed to the transport: [method, endpoint] or NoRequest
    \* ---- transport factory (APIClient) ----
    options,      \* the caller's options object (the constructor keeps a reference)
    client,       \* the axios instance built by the constructor
    built,        \* history: the options object as it was when the client was built
    sent,         \* history: per request sent, its headers and options.token at that time
    \* ---- domain service (APIService) ----
    calls,        \* call number -> the state of that invocation
    requests,     \* history: every request handed to the transport, in order
    \* ---- bounded address resolver (getIPAddress) ----
    ipPc,         \* "idle" | "called"
    now,          \* the clock, in ms since getIPAddress was called
    timeoutMs,    \* the delay handed to setTimeout
    timerArmed,   \* the setTimeout timer is armed and has not fired
    timerFiredAt, \* history: when the timer fired (Absent before)
    lookup,       \* the promise returned by publicIP()
    race,         \* the promise returned by Promise.race
    ipResult,     \* the promise returned by getIPAddress
    ipSettledAt,  \* history: when ipResult settled (Absent before)
    ipLog,        \* console.error lines written by getIPAddress
    order         \* history: "timer" and "lookup" in the order they settled

tplVars == <<tplPc, tplEndpoint, tplIds, tplRequest>>
clientVars == <<options, client, built, sent>>
serviceVars == <<calls, requests>>
raceVars == <<ipPc, now, timeoutMs, timerArmed, timerFiredAt, lookup, race,
              ipResult, ipSettledAt, ipLog, order>>

vars == <<tplVars, clientVars, serviceVars, raceVars>>

-----------------------------------------------------------------------------
(* Bounds of the model *)

MaxTemplateLen == 5
MaxKeys == 2
MaxRequests == 2
MaxCalls == 2

-----------------------------------------------------------------------------
(* JavaScript values *)

undefined == "undefined"
NoRequest == [method |-> "none", endpoint |-> <<>>]

-----------------------------------------------------------------------------
(* String primitives used by the templater *)

\* String.prototype.indexOf: 1-based position of the first occurrence, 0 if none
IndexOf(str, pat) ==
    LET hits == {p \in 1..(Len(str) - Len(pat) + 1) :
                    SubSeq(str, p, p + Len(pat) - 1) = pat}
    IN IF hits = {} THEN 0 ELSE CHOOSE p \in hits : \A q \in hits : p <= q

\* String.prototype.includes
includes(str, pat) == IndexOf(str, pat) # 0

\* GetSubstitution of String.prototype.replace for a string pattern (no
\* capture groups): $$ -> $, $& -> the match, $BACKTICK -> the text before
\* the match, $APOSTROPHE -> the text after it; any other $ stays as written.
\* (The two quote characters are written by name.)
RECURSIVE GetSubstitution(_, _, _, _)
GetSubstitution(matched, str, position, replacement) ==
    IF replacement = <<>> THEN <<>>
    ELSE IF Head(replacement) = "$" /\ Len(replacement) >= 2
              /\ replacement[2] \in {"$", "&", "BACKTICK", "APOSTROPHE"}
    THEN LET rest == SubSeq(replacement, 3, Len(replacement))
             out  == CASE replacement[2] = "$" -> <<"$">>
                       [] replacement[2] = "&" -> matched
                       [] replacement[2] = "BACKTICK" -> SubSeq(str, 1, position - 1)
                       [] replacement[2] = "APOSTROPHE" ->
                            SubSeq(str, position + Len(matched), Len(str))
         IN out \o GetSubstitution(matched, str, position, rest)
    ELSE <<Head(replacement)>>
            \o GetSubstitution(matched, str, position, Tail(replacement))

\* String.prototype.replace(searchString, replaceString): first occurrence only
replace(str, pat, replacement) ==
    LET p == IndexOf(str, pat)
    IN IF p = 0 THEN str
       ELSE SubSeq(str, 1, p - 1)
               \o GetSubstitution(pat, str, p, replacement)
               \o SubSeq(str, p + Len(pat), Len(str))

\* Literal replacement of the first occurrence (the templater's contract);
\* used only to state the claims.
replaceLiteral(str, pat, value) ==
    LET p == IndexOf(str, pat)
    IN IF p = 0 THEN str
       ELSE SubSeq(str, 1, p - 1) \o value \o SubSeq(str, p + Len(pat), Len(str))

-----------------------------------------------------------------------------
(* Endpoint templater *)

\* the loop of getChildren: for (const key of Object.keys(ids)) ...
RECURSIVE getChildrenEndpoint(_, _)
getChildrenEndpoint(endpoint, ids) ==
    IF ids = <<>> THEN endpoint
    ELSE LET key == ids[1].key
             next == IF includes(endpoint, <<":">> \o key)
                     THEN replace(endpoint, <<":">> \o key, ids[1].value)
                     ELSE endpoint
         IN getChildrenEndpoint(next, Tail(ids))

\* the loop of postChildren (the same code, written a second time)
RECURSIVE postChildrenEndpoint(_, _)
postChildrenEndpoint(endpoint, ids) ==
    IF ids = <<>> THEN endpoint
    ELSE LET key == ids[1].key
             next == IF includes(endpoint, <<":">> \o key)
                     THEN replace(endpoint, <<":">> \o key, ids[1].value)
                     ELSE endpoint
         IN postChildrenEndpoint(next, Tail(ids))

-----------------------------------------------------------------------------
(* Inputs of the templater *)

TemplateChars == {"/", ":", "i", "d"}
NameChars == {"i", "d"}

RECURSIVE SeqsUpTo(_, _)
SeqsUpTo(S, n) ==
    IF n = 0 THEN {<<>>}
    ELSE LET shorter == SeqsUpTo(S, n - 1)
         IN shorter \cup {Append(s, c) : s \in shorter, c \in S}

Templates == SeqsUpTo(TemplateChars, MaxTemplateLen)

Keys == {<<"i">>, <<"i", "d">>}

PathValues ==
    { <<"7">>, <<"4", "2">>, <<>>, <<"d">>, <<":", "i">>,
      <<"$", "&">>, <<"$", "$">>, <<"$", "APOSTROPHE">>, <<"$", "BACKTICK">>, <<"$", "1">> }

\* ids objects: at most MaxKeys distinct keys, in insertion order
IdMaps ==
    LET lists == SeqsUpTo(Keys \X PathValues, MaxKeys)
    IN { [i \in 1..Len(l) |-> [key |-> l[i][1], value |-> l[i][2]]] :
            l \in { m \in lists :
                       \A a, b \in 1..Len(m) : a # b => m[a][1] # m[b][1] } }

KeysOf(ids) == {ids[i].key : i \in 1..Len(ids)}

-----------------------------------------------------------------------------
(* Transport factory: APIClient *)
(* An optional value is a sequence: <<>> when it is not set (undefined),  *)
(* <<v>> when it is set to v.  A header value is a sequence of words.      *)

Absent == <<>>
Some(v) == <<v>>

DefaultBaseURL == "https://vekyc-gateway-server-uat.mobifi.vn"
DefaultTimeout == 30000
JsonHeaders == [ContentType |-> <<"application/json">>, Authorization |-> Absent]

\* JavaScript truthiness of an optional string, number, object
TruthyString(o) == o # Absent /\ o[1] # ""
TruthyNumber(o) == o # Absent /\ o[1] # 0
TruthyObject(o) == o # Absent

\* options?.baseURL, options?.timeout, options?.headers, options?.token:
\* undefined when options itself is undefined
Field_baseURL(opts) == IF opts = Absent THEN Absent ELSE opts[1].baseURL
Field_timeout(opts) == IF opts = Absent THEN Absent ELSE opts[1].timeout
Field_headers(opts) == IF opts = Absent THEN Absent ELSE opts[1].headers
Field_token(opts)   == IF opts = Absent THEN Absent ELSE opts[1].token

\* the template literal `Bearer ${options?.token}`
Bearer(token) == <<"Bearer", IF token = Absent THEN undefined ELSE token[1]>>

\* (mutant) the interceptor is installed without the `if (options?.token)` test
APIClient_alwaysIntercepts(opts) ==
    [ baseURL |-> IF TruthyString(Field_baseURL(opts))
                  THEN Field_baseURL(opts)[1] ELSE DefaultBaseURL,
      timeout |-> IF TruthyNumber(Field_timeout(opts))
                  THEN Field_timeout(opts)[1] ELSE DefaultTimeout,
      headers |-> IF TruthyObject(Field_headers(opts))
                  THEN Field_headers(opts)[1] ELSE JsonHeaders,
      interceptor |-> TRUE ]

\* constructor(options): axios.create(...) and, if options?.token is truthy,
\* one request interceptor whose closure keeps `options`
APIClient(opts) ==
    [ baseURL |-> IF TruthyString(Field_baseURL(opts))
                  THEN Field_baseURL(opts)[1] ELSE DefaultBaseURL,
      timeout |-> IF TruthyNumber(Field_timeout(opts))
                  THEN Field_timeout(opts)[1] ELSE DefaultTimeout,
      headers |-> IF TruthyObject(Field_headers(opts))
                  THEN Field_headers(opts)[1] ELSE JsonHeaders,
      interceptor |-> TruthyString(Field_token(opts)) ]

\* the request interceptor: config.headers.Authorization = `Bearer ${options?.token}`,
\* evaluated when the request is sent, on the options object as it is then
Intercept(headers, opts) ==
    [headers EXCEPT !.Authorization = Bearer(Field_token(opts))]

\* the headers of a request sent through the client
RequestHeaders(c, opts) ==
    IF c.interceptor THEN Intercept(c.headers, opts) ELSE c.headers

\* the history entry of a request sent while the options object is opts
SentEntry(c, opts) ==
    [headers |-> RequestHeaders(c, opts), tokenThen |-> Field_token(opts)]

Tokens == {"tokA", "tokB"}
TokenValues == {Absent, Some("")} \cup {Some(t) : t \in Tokens}
HeaderOverrides ==
    { Absent,
      Some([ContentType |-> <<"text/plain">>, Authorization |-> Absent]),
      Some([ContentType |-> <<"application/json">>,
            Authorization |-> <<"Basic", "xyz">>]) }
OptionObjects ==
    { Some(o) : o \in [ baseURL : {Absent, Some("https://gateway.example")},
                        timeout : {Absent, Some(0), Some(5000)},
                        headers : HeaderOverrides,
                        token   : TokenValues ] }
    \cup {Absent}

-----------------------------------------------------------------------------
(* JavaScript values carried by payloads, queries and results.  A string   *)
(* is a sequence of pieces; a piece the templater can match is a single    *)
(* character, a piece it only copies may be a longer chunk.                *)

JsUndefined == <<"undefined">>
JsNull == <<"null">>
Str(s) == <<"string", s>>

\* a default parameter value (x = d) applies when the argument is undefined
Default(v, d) == IF v = JsUndefined THEN d ELSE v

\* promise states
Pending == [state |-> "pending", value |-> JsUndefined]
Fulfilled(v) == [state |-> "fulfilled", value |-> v]
Rejected(e) == [state |-> "rejected", value |-> e]

-----------------------------------------------------------------------------
(* Endpoint paths of ../utils/environment (supplied from outside src/) *)

GET_CONFIG_INFO   == <<"/", "config">>
CREATE_MEETING    == <<"/", "meeting", "/", ":", "i", "d", "/", "create">>
SAVE_LOG          == <<"/", "log">>
SUBMIT            == <<"/", "submit">>
HOOK              == <<"/", "hook">>
CLOSE_VIDEO       == <<"/", "close">>
GET_CONTRACT_LIST == <<"/", "contracts">>
GET_CONTRACT_URL  == <<"/", "contract", "/", ":", "i", "d", "/", "url">>
CONFIRM_CONTRACT  == <<"/", "contract", "/", ":", "i", "d", "/", "confirm">>
RATING            == <<"/", "rating">>

-----------------------------------------------------------------------------
(* Domain service: APIService *)

ContractAction ==
    { "AGENT_REJECT", "CUSTOMER_CONNECTED", "CUSTOMER_DISCONNECT",
      "AGENT_CHECK_KYC", "AGENT_CONFIRM_KYC", "OTP_CONFIRM", "AGENT_END_CALL",
      "CALL_TIME_OUT", "AGENT_DISCONNECT", "AGENT_CONFIRM_LEGAL",
      "CUSTOMER_END_CALL", "KSV_APPROVE", "KSV_NEED_REVIEW", "KSV_REJECT",
      "CUSTOMER_CONFIRM", "CUSTOMER_ACTIVED_LINK", "CUSTOMER_OTP_CONFIRMED",
      "CUSTOMER_TEST_CAM_MIC", "CUSTOMER_INCOMMING", "OTP_BYPASS" }

Operations ==
    { "getConfigInfo", "createMeeting", "saveLog", "submit", "hook",
      "closeVideo", "getContractList", "getContractURL", "confirmContract",
      "rateCall" }

IdKey == <<"i", "d">>

\* this.get(endpoint, params): the request handed to client.get
get_request(endpoint, params) ==
    [method |-> "GET", endpoint |-> endpoint, params |-> params, body |-> Absent]

\* this.post(endpoint, data): the request handed to client.post
post_request(endpoint, data) ==
    [method |-> "POST", endpoint |-> endpoint, params |-> Absent, body |-> data]

\* The synchronous part of each operation, up to the first await: it builds
\* the parameter map or payload and hands one request to the transport.
OperationRequest(op, args) ==
    CASE op = "getConfigInfo" ->
            get_request(GET_CONFIG_INFO, Some([appointment_id |-> args[1]]))
      [] op = "createMeeting" ->
            post_request(
                postChildrenEndpoint(CREATE_MEETING,
                                     <<[key |-> IdKey, value |-> args[1][2]]>>),
                Some([customerIp |-> args[2],
                      agent_id |-> Default(args[3], JsNull)]))
      [] op = "saveLog" ->
            post_request(SAVE_LOG,
                Some([actionHistory |-> args[1],
                      detail |-> Default(args[2], JsNull),
                      sessionKey |-> Default(args[3], Str(<<>>))]))
      [] op = "submit" ->
            post_request(SUBMIT,
                Some([id |-> args[1], agent_id |-> Default(args[2], JsNull)]))
      [] op = "hook" ->
            post_request(HOOK,
                Some([sessionId |-> args[1], sessionKey |-> args[2],
                      agentId |-> Default(args[3], JsNull)]))
      [] op = "closeVideo" ->
            post_request(CLOSE_VIDEO,
                Some([sessionKey |-> args[1], type |-> Str(<<"USER">>)]))
      [] op = "getContractList" ->
            get_request(GET_CONTRACT_LIST, Some([meetingId |-> args[1]]))
      [] op = "getContractURL" ->
            get_request(
                getChildrenEndpoint(GET_CONTRACT_URL,
                                    <<[key |-> IdKey, value |-> args[1][2]]>>),
                Absent)
      [] op = "confirmContract" ->
            post_request(
                postChildrenEndpoint(CONFIRM_CONTRACT,
                                     <<[key |-> IdKey, value |-> args[1][2]]>>),
                Absent)
      [] op = "rateCall" ->
            post_request(RATING,
                Some([rating_video_call |-> args[1],
                      customer_feedback |-> args[2],
                      rating_agent |-> args[3],
                      customer_feedback_agent |-> args[4]]))

\* The outcome of a transport call: the response to request c, or a failure
Response(c) == [ok |-> TRUE, payload |-> <<"data", c>>]
Failure(c) == [ok |-> FALSE, payload |-> <<"error", c>>]
NoOutcome == [ok |-> FALSE, payload |-> <<"none", 0>>]

\* (mutant) the catch block of get hands the error back as the result
get_returnsError(outcome) == Fulfilled(outcome.payload)

\* private get: try { res = await client.get(...); return res.data }
\*              catch (error) { console.error(...) }   (returns undefined)
get(outcome) ==
    IF outcome.ok THEN Fulfilled(outcome.payload) ELSE Fulfilled(JsUndefined)

\* private post: the same around client.post
post(outcome) ==
    IF outcome.ok THEN Fulfilled(outcome.payload) ELSE Fulfilled(JsUndefined)

\* the executor primitive an operation's request went through
Executor(method, outcome) == IF method = "GET" THEN get(outcome) ELSE post(outcome)

\* each operation's own try { res = await this.get/post...; return res }
\*                      catch (error) { console.error(...) }
OperationResult(promise) ==
    IF promise.state = "fulfilled" THEN Fulfilled(promise.value)
    ELSE Fulfilled(JsUndefined)

\* console.error lines written by the executor for an outcome
ExecutorLog(method, outcome) == IF outcome.ok THEN <<>> ELSE <<method>>

\* Inputs of the operations
AppointmentIds == {<<"A", "1">>, <<"$", "&">>}
SessionKeys == {<<"S", "9">>, <<"$", "$">>}
AgentIds == {JsUndefined, Str(<<"ag7">>)}

Invocations ==
    {[op |-> "getConfigInfo", args |-> <<Str(<<"A", "1">>)>>]}
    \cup {[op |-> "createMeeting", args |-> <<Str(a), Str(<<"9.9.9.9">>), g>>] :
            a \in AppointmentIds, g \in AgentIds}
    \cup {[op |-> "saveLog", args |-> <<Str(<<"CALL_TIME_OUT">>), JsUndefined, JsUndefined>>]}
    \cup {[op |-> "submit", args |-> <<Str(<<"A", "1">>), g>>] : g \in AgentIds}
    \cup {[op |-> "hook", args |-> <<Str(<<"sid">>), Str(<<"S", "9">>), JsUndefined>>]}
    \cup {[op |-> "closeVideo", args |-> <<Str(<<"S", "9">>)>>]}
    \cup {[op |-> "getContractList", args |-> <<Str(<<"S", "9">>)>>]}
    \cup {[op |-> "getContractURL", args |-> <<Str(k)>>] : k \in SessionKeys}
    \cup {[op |-> "confirmContract", args |-> <<Str(k)>>] : k \in SessionKeys}
    \cup {[op |-> "rateCall",
           args |-> <<Str(<<"5">>), Str(<<"ok">>), Str(<<"4">>), Str(<<"fine">>)>>]}

NotCalled ==
    [ pc |-> "idle", op |-> "none", args |-> <<>>, outcome |-> NoOutcome,
      executor |-> Pending, result |-> Pending, log |-> <<>>,
      sawFailure |-> FALSE ]

CallIds == 1..MaxCalls

ServiceUnused ==
    /\ calls = [c \in {} |-> NotCalled]
    /\ requests = <<>>

-----------------------------------------------------------------------------
(* Bounded address resolver: getIPAddress *)

DefaultTimeoutMs == 3000
TimeoutError == <<"Error", "Timeout">>
LookupError == <<"Error", "lookup failed">>

\* (mutant) a hand-written race in which the last settlement wins
RaceSettle_lastWins(promise, settlement) == settlement

\* Promise.race and promise resolution: the first settlement wins, later
\* settlements of the other party change nothing
RaceSettle(promise, settlement) ==
    IF promise.state = "pending" THEN settlement ELSE promise

\* (mutant) getIPAddress without its catch block: the timeout is rethrown
getIPAddressResult_rethrows(promise) == promise

\* (mutant) getIPAddress awaits the race but forgets `return ip`
getIPAddressResult_noReturn(promise) ==
    IF promise.state = "pending" THEN Pending ELSE Fulfilled(JsUndefined)

\* try { ip = await Promise.race([...]); return ip }
\* catch (error) { console.error(...) }      (returns undefined)
getIPAddressResult(promise) ==
    CASE promise.state = "pending" -> Pending
      [] promise.state = "fulfilled" -> Fulfilled(promise.value)
      [] promise.state = "rejected" -> Fulfilled(JsUndefined)

\* the console.error line of the catch block
getIPAddressLog(promise) ==
    IF promise.state = "rejected" THEN <<"Error fetching public IP:">> ELSE <<>>

RaceIdle ==
    /\ ipPc = "idle"
    /\ now = 0
    /\ timeoutMs = 0
    /\ timerArmed = FALSE
    /\ timerFiredAt = Absent
    /\ lookup = Pending
    /\ race = Pending
    /\ ipResult = Pending
    /\ ipSettledAt = Absent
    /\ ipLog = <<>>
    /\ order = <<>>

RaceUnused == RaceIdle

TemplateUnused ==
    /\ tplPc = "unused"
    /\ tplEndpoint = <<>>
    /\ tplIds = <<>>
    /\ tplRequest = NoRequest

ClientUnused ==
    /\ options = Absent
    /\ client = APIClient(Absent)
    /\ built = Absent
    /\ sent = <<>>

\* createAPIClient(options): the state right after construction
ClientInit ==
    /\ options \in OptionObjects
    /\ client = APIClient(options)
    /\ built = options
    /\ sent = <<>>
    /\ TemplateUnused
    /\ ServiceUnused
    /\ RaceUnused

\* the caller assigns options.token after the client was built
SetOptionsToken(t) ==
    /\ options # Absent
    /\ options[1].token # t
    /\ options' = Some([options[1] EXCEPT !.token = t])
    /\ UNCHANGED <<client, built, sent, tplVars, serviceVars, raceVars>>

\* a request goes out through the client (client.get / client.post)
SendRequest ==
    /\ Len(sent) < MaxRequests
    /\ sent' = Append(sent, SentEntry(client, options))
    /\ UNCHANGED <<options, client, built, tplVars, serviceVars, raceVars>>

ClientNext ==
    \/ \E t \in TokenValues : SetOptionsToken(t)
    \/ SendRequest

SpecClient == ClientInit /\ [][ClientNext]_vars

-----------------------------------------------------------------------------
(* Specification of the templater: the inputs are drawn in Init *)

TemplateInit ==
    /\ tplPc = "start"
    /\ tplEndpoint \in Templates
    /\ tplIds \in IdMaps
    /\ tplRequest = NoRequest
    /\ ClientUnused
    /\ ServiceUnused
    /\ RaceUnused

\* getChildren(endpoint, ids): substitute, then this.get(endpoint, params)
getChildren ==
    /\ tplPc = "start"
    /\ tplPc' = "sent"
    /\ tplRequest' = [method |-> "GET",
                      endpoint |-> getChildrenEndpoint(tplEndpoint, tplIds)]
    /\ UNCHANGED <<tplEndpoint, tplIds, clientVars, serviceVars, raceVars>>

\* postChildren(endpoint, ids, data): substitute, then this.post(endpoint, data)
postChildren ==
    /\ tplPc = "start"
    /\ tplPc' = "sent"
    /\ tplRequest' = [method |-> "POST",
                      endpoint |-> postChildrenEndpoint(tplEndpoint, tplIds)]
    /\ UNCHANGED <<tplEndpoint, tplIds, clientVars, serviceVars, raceVars>>

TemplateNext == getChildren \/ postChildren

SpecTemplate == TemplateInit /\ [][TemplateNext]_vars

-----------------------------------------------------------------------------
(* Specification of the domain service: concurrent calls on one instance *)

ServiceOptions ==
    { Absent,
      Some([baseURL |-> Absent, timeout |-> Absent, headers |-> Absent,
            token |-> Some("tokA")]) }

\* createAPIService(options): one client, no call made yet
ServiceInit ==
    /\ options \in ServiceOptions
    /\ client = APIClient(options)
    /\ built = options
    /\ sent = <<>>
    /\ calls = [c \in CallIds |-> NotCalled]
    /\ requests = <<>>
    /\ TemplateUnused
    /\ RaceUnused

\* The caller invokes an operation: the code runs up to its first await,
\* which hands exactly one request to client.get / client.post.
Invoke(c, inv) ==
    /\ calls[c].pc = "idle"
    /\ \A b \in CallIds : b < c => calls[b].pc # "idle"
    /\ LET req == OperationRequest(inv.op, inv.args)
       IN /\ requests' = Append(requests, [call |-> c] @@ req)
          /\ sent' = Append(sent, SentEntry(client, options))
    /\ calls' = [calls EXCEPT ![c] =
                    [NotCalled EXCEPT !.pc = "transport", !.op = inv.op,
                                      !.args = inv.args]]
    /\ UNCHANGED <<options, client, built, tplVars, raceVars>>

\* (mutant) one shared pending request: a settlement is delivered to every
\* call that awaits the transport
TransportSettle_shared(c, outcome) ==
    /\ calls[c].pc = "transport"
    /\ calls' = [b \in CallIds |->
            IF calls[b].pc = "transport"
            THEN [calls[b] EXCEPT !.pc = "executor", !.outcome = outcome,
                                  !.executor = post(outcome)]
            ELSE calls[b]]
    /\ UNCHANGED <<requests, clientVars, tplVars, raceVars>>

\* The transport call of c settles and the executor (get/post) continues:
\* it returns res.data, or logs the failure and returns undefined.
TransportSettle(c, outcome) ==
    /\ calls[c].pc = "transport"
    /\ LET method == IF calls[c].op \in {"getConfigInfo", "getContractList",
                                          "getContractURL"}
                     THEN "GET" ELSE "POST"
       IN calls' = [b \in CallIds |->
            IF b = c
            THEN [calls[c] EXCEPT !.pc = "executor", !.outcome = outcome,
                                  !.executor = Executor(method, outcome),
                                  !.log = ExecutorLog(method, outcome)]
            ELSE [calls[b] EXCEPT !.sawFailure =
                     @ \/ (~outcome.ok /\ calls[b].pc \in {"transport", "executor"})]]
    /\ UNCHANGED <<requests, clientVars, tplVars, raceVars>>

\* The operation's await of the executor resumes and the operation returns.
OperationResume(c) ==
    /\ calls[c].pc = "executor"
    /\ calls' = [calls EXCEPT ![c].pc = "done",
                              ![c].result = OperationResult(calls[c].executor),
                              ![c].log = @ \o (IF calls[c].executor.state = "rejected"
                                               THEN <<calls[c].op>> ELSE <<>>)]
    /\ UNCHANGED <<requests, clientVars, tplVars, raceVars>>

ServiceNext ==
    \/ \E c \in CallIds, inv \in Invocations : Invoke(c, inv)
    \/ \E c \in CallIds : TransportSettle(c, Response(c))
    \/ \E c \in CallIds : TransportSettle(c, Failure(c))
    \/ \E c \in CallIds : OperationResume(c)

Spec == ServiceInit /\ [][ServiceNext]_vars

-----------------------------------------------------------------------------
(* Specification of the bounded address resolver *)

TimeoutArgs == {JsUndefined, <<"number", 0>>, <<"number", 100>>, <<"number", 5000>>}
TimePoints == {0, 10, 100, 3000, 5000, 6000}
Addresses == {<<"203.0.113.5">>, <<"198.51.100.7">>}

RaceInit ==
    /\ RaceIdle
    /\ TemplateUnused
    /\ ClientUnused
    /\ ServiceUnused

\* what every settlement of the timer or the lookup leads to: the race
\* takes it if it is the first, and the awaiting getIPAddress continues
Settle(who, settlement) ==
    /\ race' = RaceSettle(race, settlement)
    /\ ipResult' = getIPAddressResult(race')
    /\ ipLog' = getIPAddressLog(race')
    /\ ipSettledAt' = IF ipResult.state = "pending" /\ ipResult'.state # "pending"
                      THEN Some(now) ELSE ipSettledAt
    /\ order' = Append(order, who)

\* getIPAddress(timeoutMs = 3000) up to its await: arms the timer, starts
\* the lookup, races the two
getIPAddress(arg) ==
    /\ ipPc = "idle"
    /\ ipPc' = "called"
    /\ timeoutMs' = IF arg = JsUndefined THEN DefaultTimeoutMs ELSE arg[2]
    /\ timerArmed' = TRUE
    /\ UNCHANGED <<now, timerFiredAt, lookup, race, ipResult, ipSettledAt,
                   ipLog, order>>
    /\ UNCHANGED <<tplVars, clientVars, serviceVars>>

\* time passes
Tick(t) ==
    /\ ipPc = "called"
    /\ t > now
    /\ now' = t
    /\ UNCHANGED <<ipPc, timeoutMs, timerArmed, timerFiredAt, lookup, race,
                   ipResult, ipSettledAt, ipLog, order>>
    /\ UNCHANGED <<tplVars, clientVars, serviceVars>>

\* the timer fires, no earlier than timeoutMs after it was armed:
\* reject(new Error("Timeout"))
TimerFire ==
    /\ ipPc = "called"
    /\ timerArmed
    /\ now >= timeoutMs
    /\ timerArmed' = FALSE
    /\ timerFiredAt' = Some(now)
    /\ Settle("timer", Rejected(TimeoutError))
    /\ UNCHANGED <<ipPc, now, timeoutMs, lookup>>
    /\ UNCHANGED <<tplVars, clientVars, serviceVars>>

\* publicIP() fulfils with an address
LookupFulfil(v) ==
    /\ ipPc = "called"
    /\ lookup.state = "pending"
    /\ lookup' = Fulfilled(Str(v))
    /\ Settle("lookup", lookup')
    /\ UNCHANGED <<ipPc, now, timeoutMs, timerArmed, timerFiredAt>>
    /\ UNCHANGED <<tplVars, clientVars, serviceVars>>

\* publicIP() rejects
LookupReject ==
    /\ ipPc = "called"
    /\ lookup.state = "pending"
    /\ lookup' = Rejected(LookupError)
    /\ Settle("lookup", lookup')
    /\ UNCHANGED <<ipPc, now, timeoutMs, timerArmed, timerFiredAt>>
    /\ UNCHANGED <<tplVars, clientVars, serviceVars>>

RaceNext ==
    \/ \E arg \in TimeoutArgs : getIPAddress(arg)
    \/ \E t \in TimePoints : Tick(t)
    \/ TimerFire
    \/ \E v \in Addresses : LookupFulfil(v)
    \/ LookupReject

SpecRace == RaceInit /\ [][RaceNext]_vars

-----------------------------------------------------------------------------
(* Claims about the endpoint templater (SpecTemplate) *)

\* The templater's contract, key by key in insertion order: the first
\* occurrence of ":<key>" is replaced by the key's value, literally.
RECURSIVE ContractEndpoint(_, _)
ContractEndpoint(endpoint, ids) ==
    IF ids = <<>> THEN endpoint
    ELSE ContractEndpoint(
            replaceLiteral(endpoint, <<":">> \o ids[1].key, ids[1].value),
            Tail(ids))

\* The placeholder names of a path: each maximal run of name characters
\* that follows a colon.
NameRun(str, p) ==
    LET ends == {q \in p..Len(str) : \A k \in p..q : str[k] \in NameChars}
    IN SubSeq(str, p, p + Cardinality(ends) - 1)

PlaceholderNames(str) ==
    {NameRun(str, p + 1) : p \in {q \in 1..Len(str) : str[q] = ":"}} \ {<<>>}

\* C4: for each key whose token ":<key>" occurs in the template, only the
\* first occurrence of the token is replaced, by the key's value, and
\* nothing else changes.
C4_FirstOccurrenceReplacedByValue ==
    tplPc = "sent" =>
        tplRequest.endpoint = ContractEndpoint(tplEndpoint, tplIds)

\* C5: every placeholder whose name is not a key of the parameter map is
\* still a placeholder, unchanged, of the endpoint passed to the request.
C5_UnmatchedPlaceholdersKept ==
    tplPc = "sent" =>
        \A name \in PlaceholderNames(tplEndpoint) \ KeysOf(tplIds) :
            name \in PlaceholderNames(tplRequest.endpoint)

\* The contract holds whenever no value of the map contains a "$".
DollarFree(ids) ==
    \A i \in 1..Len(ids) : \A k \in 1..Len(ids[i].value) : ids[i].value[k] # "$"

TemplaterContractWithoutDollar ==
    (tplPc = "sent" /\ DollarFree(tplIds)) =>
        tplRequest.endpoint = ContractEndpoint(tplEndpoint, tplIds)

\* The two worked examples of the contract, evaluated on the code's loop:
\* "/meeting/:id/detail" with {id: "42"} and "/a/:id/b/:id" with {id: "7"}.
TemplaterExamples ==
    /\ getChildrenEndpoint(
           <<"/", "meeting", "/", ":", "i", "d", "/", "detail">>,
           <<[key |-> IdKey, value |-> <<"4", "2">>]>>)
         = <<"/", "meeting", "/", "4", "2", "/", "detail">>
    /\ postChildrenEndpoint(
           <<"/", "a", "/", ":", "i", "d", "/", "b", "/", ":", "i", "d">>,
           <<[key |-> IdKey, value |-> <<"7">>]>>)
         = <<"/", "a", "/", "7", "/", "b", "/", ":", "i", "d">>

-----------------------------------------------------------------------------
(* Claims about the transport factory (SpecClient) *)

C7_CredentialFixedAtConstruction ==
    \A i \in 1..Len(sent) : sent[i].headers = RequestHeaders(client, built)

-----------------------------------------------------------------------------
(* Claims about the domain service (Spec) *)

Called(c) == calls[c].pc # "idle"
RequestsOf(c) == {i \in 1..Len(requests) : requests[i].call = c}

\* C1: when the transport call of an operation fails, the operation's
\* promise is fulfilled with undefined; no operation's promise is rejected.
C1_FailureYieldsUndefined ==
    \A c \in CallIds :
        /\ calls[c].result.state # "rejected"
        /\ (calls[c].pc = "done" /\ ~calls[c].outcome.ok) =>
               calls[c].result = Fulfilled(JsUndefined)

\* a GET operation and a POST operation have both failed and returned
C1_Witness ==
    /\ calls[1].op = "getContractURL" /\ calls[2].op = "createMeeting"
    /\ \A c \in CallIds : calls[c].pc = "done" /\ ~calls[c].outcome.ok

\* C8: createMeeting issues exactly one request, a POST to CREATE_MEETING
\* with ":id" replaced by appointmentId and the body {customerIp, agent_id},
\* agent_id null when agentId is not given; no second request, also on failure.
C8_CreateMeetingOnePost ==
    \A c \in CallIds :
        (Called(c) /\ calls[c].op = "createMeeting") =>
            /\ Cardinality(RequestsOf(c)) = 1
            /\ \A i \in RequestsOf(c) :
                  /\ requests[i].method = "POST"
                  /\ requests[i].endpoint =
                        replaceLiteral(CREATE_MEETING, <<":">> \o IdKey,
                                       calls[c].args[1][2])
                  /\ requests[i].body =
                        Some([customerIp |-> calls[c].args[2],
                              agent_id |-> IF calls[c].args[3] = JsUndefined
                                           THEN JsNull ELSE calls[c].args[3]])

\* C9: concurrent calls are independent. Each call's result is decided by
\* the outcome of its own request alone; a step of one call changes nothing
\* of another call, and nothing of the shared client.
OwnResult(c) ==
    IF calls[c].outcome.ok THEN Fulfilled(<<"data", c>>) ELSE Fulfilled(JsUndefined)

Visible(call) ==
    <<call.pc, call.op, call.args, call.outcome, call.executor, call.result,
      call.log>>

C9_CallsIndependent ==
    /\ [](\A c \in CallIds :
            /\ calls[c].pc \in {"executor", "done"} =>
                  /\ calls[c].outcome \in {Response(c), Failure(c)}
                  /\ calls[c].executor = OwnResult(c)
            /\ calls[c].pc = "done" => calls[c].result = OwnResult(c)
            /\ calls[c].pc \in {"idle", "transport"} =>
                  calls[c].executor = Pending
            /\ calls[c].pc # "done" => calls[c].result = Pending)
    /\ [][ /\ \A b, c \in CallIds :
                (b # c /\ Visible(calls'[c]) # Visible(calls[c])) =>
                    Visible(calls'[b]) = Visible(calls[b])
           /\ options' = options
           /\ client' = client ]_vars

\* a call got its own response although another call failed while it was
\* in flight
C9_Witness ==
    \E c \in CallIds :
        /\ calls[c].pc = "done"
        /\ calls[c].sawFailure
        /\ calls[c].result = Fulfilled(<<"data", c>>)

-----------------------------------------------------------------------------
(* Claims about the bounded address resolver (SpecRace) *)

\* C2: if the lookup has not settled when the timer fires, getIPAddress
\* settles at that moment, fulfilled with undefined.
C2_TimeoutYieldsUndefinedAtTimer ==
    (order # <<>> /\ order[1] = "timer") =>
        /\ ipResult = Fulfilled(JsUndefined)
        /\ ipSettledAt = timerFiredAt

\* timeout 100 ms, the timer fired at 100 ms, the lookup answered at 5000 ms
C2_Witness ==
    /\ order = <<"timer", "lookup">>
    /\ timeoutMs = 100
    /\ timerFiredAt = Some(100)
    /\ ipSettledAt = Some(100)
    /\ lookup.state = "fulfilled"
    /\ now = 5000

\* C3: if the lookup settles with a value v before the timer fires, the
\* result of getIPAddress is exactly v.
C3_LookupValueReturned ==
    (order # <<>> /\ order[1] = "lookup" /\ lookup.state = "fulfilled") =>
        ipResult = Fulfilled(lookup.value)

\* the lookup answered at 10 ms under the default 3000 ms timeout
C3_Witness ==
    /\ order = <<"lookup", "timer">>
    /\ timeoutMs = DefaultTimeoutMs
    /\ ipSettledAt = Some(10)
    /\ ipResult = Fulfilled(Str(<<"203.0.113.5">>))

\* C10: the loser of the race is not cancelled (the timer stays armed, the
\* lookup stays in flight) and its later settlement changes neither the
\* result already returned nor turns it into a rejection.
C10_LoserDiscardedNotCancelled ==
    /\ [](ipResult.state # "rejected")
    /\ []((order = <<"lookup">>) => timerArmed)
    /\ []((order = <<"timer">>) => lookup.state = "pending")
    /\ [][ ipResult.state # "pending" =>
              /\ ipResult' = ipResult
              /\ ipSettledAt' = ipSettledAt
              /\ ipLog' = ipLog ]_vars

\* both parties have settled, the loser after the call had returned
C10_Witness ==
    /\ Len(order) = 2
    /\ ipResult.state = "fulfilled"
    /\ ipSettledAt # Some(now)

====
